---- MODULE Spec2Model ----
(***************************************************************************)
(* The content-build pipeline configured by contentlayer.config.ts         *)
(* (src/unnamed/part_000): the ordered transform chain of every document   *)
(* and the two line callbacks handed to the code highlighter.              *)
(*                                                                         *)
(* Several specifications share the variables below.                           *)
(*   Spec       a build over the documents: each document's chain of       *)
(*              plugins, with the highlighter's visit of every code line.  *)
(*   SpecVisit  the two callbacks as functions of one line node of any     *)
(*              shape, called in any order.                                *)
(*   SpecHeadings  the chain on the headings of one document: the id       *)
(*              assignment and the self-link wrapping.                     *)
(*   SpecInPlace  the callbacks on the line nodes of a build, with the     *)
(*              class lists as arrays held by reference.                   *)
(*   SpecEnv    the evaluation of BASE_URL (lib/metadata.ts) under an      *)
(*              environment.                                               *)
(*   SpecEsbuild  the call of esbuildOptions on the host's options object. *)
(***************************************************************************)
EXTENDS Integers, Sequences, FiniteSets

VARIABLES
    source,     \* Spec: per document, the lines of its fenced code
    lineProps,  \* Spec: the properties the highlighter gives a fresh line node
    tree,       \* Spec: per document, the syntax tree being transformed
    step,       \* Spec: per document, the number of chain steps finished
    active,     \* Spec: per document, the chain step the highlighter runs as (0: not running)
    cursor,     \* Spec: per document, the code lines whose visit is over
    pending,    \* Spec: per document, the callback the visitor calls next
    logged,     \* Spec: the numbers the completion hook has written to the console
    node,       \* SpecVisit: the line node the callbacks are applied to
    prev,       \* SpecVisit: the node as it was before the last call
    calls,      \* SpecVisit: the callbacks called so far, in order
    headings,   \* SpecHeadings: the heading nodes of the document, in order
    hstep,      \* SpecHeadings: the number of chain steps finished on them
    arrays,     \* SpecInPlace: the heap of class-list arrays, by reference
    classRef,   \* SpecInPlace: per line node, the array its className refers to (0: none)
    kids,       \* SpecInPlace: per line node, its children
    marked,     \* SpecInPlace: per line node, whether the author marked the line
    visit,      \* SpecInPlace: per line node, the callback the visitor calls next
    env,        \* SpecEnv: the environment variables of the process
    baseUrl,    \* SpecEnv: the value of BASE_URL once the module is evaluated
    esbuild     \* SpecEsbuild: the heap of options objects, the one given, the one returned

pipelineVars == <<source, lineProps, tree, step, active, cursor, pending, logged>>

visitVars == <<node, prev, calls>>

headingVars == <<headings, hstep>>

inPlaceVars == <<arrays, classRef, kids, marked, visit>>

envVars == <<env, baseUrl>>

esbuildVars == <<esbuild>>

vars == <<pipelineVars, visitVars, headingVars, inPlaceVars, envVars, esbuildVars>>

\* what the actions of one specification leave alone
notPipelineVars == <<visitVars, headingVars, inPlaceVars, envVars, esbuildVars>>

notVisitVars == <<pipelineVars, headingVars, inPlaceVars, envVars, esbuildVars>>

notHeadingVars == <<pipelineVars, visitVars, inPlaceVars, envVars, esbuildVars>>

notInPlaceVars == <<pipelineVars, visitVars, headingVars, envVars, esbuildVars>>

notEnvVars == <<pipelineVars, visitVars, headingVars, inPlaceVars, esbuildVars>>

notEsbuildVars == <<pipelineVars, visitVars, headingVars, inPlaceVars, envVars>>

(***************************************************************************)
(* Bounds.                                                                 *)
(***************************************************************************)
\* documents of one build
NumDocs == 2

\* code lines of one build, over all its documents
MaxLines == 2

\* children of a line node given to a callback (SpecVisit)
MaxChildren == 2

\* classes a line node carries before the first call (SpecVisit)
MaxClasses == 2

\* callback calls on one node (SpecVisit)
MaxCalls == 3

\* headings of the document (SpecHeadings)
MaxHeadings == 3

\* the line nodes of the build in SpecInPlace
MaxNodes == 3

(***************************************************************************)
(* Syntax-tree nodes.  A line node is { children, properties }; its        *)
(* properties may or may not have a className.  A child is a text node or  *)
(* a token element, kept with the text it renders.                         *)
(***************************************************************************)
Range(s) == {s[i] : i \in 1..Len(s)}

Last(s) == s[Len(s)]

NoProps == [k \in {} |-> <<>>]

HasClassName(n) == "className" \in DOMAIN n.properties

\* node.properties.className read as a list: undefined reads as the empty list
ClassList(n) == IF HasClassName(n) THEN n.properties.className ELSE <<>>

Text(v) == [type |-> "text", value |-> v]

Token(v) == [type |-> "element", value |-> v]

RECURSIVE Concat(_)
Concat(cs) == IF cs = <<>> THEN "" ELSE cs[1].value \o Concat(Tail(cs))

\* the text a line renders: the text of its children, in order
Rendered(n) == Concat(n.children)

(***************************************************************************)
(* The two callbacks of the rehypePrettyCode options.                      *)
(***************************************************************************)
\* onVisitLine without the placeholder: the guard on the children inverted
onVisitLine_NoPlaceholder(n) ==
    [n EXCEPT !.properties =
        [k \in DOMAIN n.properties \cup {"className"} |->
            IF k = "className" THEN <<"line">> ELSE n.properties[k]]]

\* onVisitLine giving the class only to a node that has none (className ||= ["line"])
onVisitLine_KeepsClass(n) ==
    LET withChildren ==
            IF Len(n.children) = 0
            THEN [n EXCEPT !.children = <<Text(" ")>>]
            ELSE n
    IN  IF HasClassName(n)
        THEN withChildren
        ELSE [withChildren EXCEPT !.properties =
                [k \in DOMAIN n.properties \cup {"className"} |->
                    IF k = "className" THEN <<"line">> ELSE n.properties[k]]]

\* onVisitLine adding its class to the list the node already has (push)
onVisitLine_Appends(n) ==
    LET withChildren ==
            IF Len(n.children) = 0
            THEN [n EXCEPT !.children = <<Text(" ")>>]
            ELSE n
    IN  [withChildren EXCEPT !.properties =
            [k \in DOMAIN n.properties \cup {"className"} |->
                IF k = "className" THEN Append(ClassList(n), "line")
                ELSE n.properties[k]]]

\* onVisitLine adding the placeholder to every node (push, no test)
onVisitLine_AlwaysPads(n) ==
    [n EXCEPT !.children = Append(n.children, Text(" ")),
              !.properties =
                [k \in DOMAIN n.properties \cup {"className"} |->
                    IF k = "className" THEN <<"line">> ELSE n.properties[k]]]

\* onVisitLine assigning the placeholder to every node (no test)
onVisitLine_ReplacesChildren(n) ==
    [n EXCEPT !.children = <<Text(" ")>>,
              !.properties =
                [k \in DOMAIN n.properties \cup {"className"} |->
                    IF k = "className" THEN <<"line">> ELSE n.properties[k]]]

onVisitLine(n) ==
    LET withChildren ==
            IF Len(n.children) = 0
            THEN [n EXCEPT !.children = <<Text(" ")>>]
            ELSE n
    IN  [withChildren EXCEPT !.properties =
            [k \in DOMAIN n.properties \cup {"className"} |->
                IF k = "className" THEN <<"line">> ELSE n.properties[k]]]

\* onVisitHighlightedLine assigning the class list in both branches
onVisitHighlightedLine_Replaces(n) ==
    [n EXCEPT !.properties =
        [k \in DOMAIN n.properties \cup {"className"} |->
            IF k = "className" THEN <<"line--highlighted">> ELSE n.properties[k]]]

\* onVisitHighlightedLine putting the class in front (unshift for push)
onVisitHighlightedLine_Prepends(n) ==
    [n EXCEPT !.properties =
        [k \in DOMAIN n.properties \cup {"className"} |->
            IF k = "className" THEN <<"line--highlighted">> \o ClassList(n)
            ELSE n.properties[k]]]

\* onVisitHighlightedLine adding the class only where the list lacks it
onVisitHighlightedLine_Once(n) ==
    LET nodeClass == ClassList(n)
    IN  IF HasClassName(n) /\ Len(nodeClass) > 0
        THEN IF "line--highlighted" \in Range(nodeClass)
             THEN n
             ELSE [n EXCEPT !.properties.className = Append(nodeClass, "line--highlighted")]
        ELSE [n EXCEPT !.properties =
                [k \in DOMAIN n.properties \cup {"className"} |->
                    IF k = "className" THEN <<"line--highlighted">> ELSE n.properties[k]]]

\* onVisitHighlightedLine pushing without the test: the push on a node that
\* has no className throws and the node stays as it was
onVisitHighlightedLine_PushOnly(n) ==
    IF HasClassName(n)
    THEN [n EXCEPT !.properties.className = Append(ClassList(n), "line--highlighted")]
    ELSE n

onVisitHighlightedLine(n) ==
    LET nodeClass == ClassList(n)
    IN  IF HasClassName(n) /\ Len(nodeClass) > 0
        THEN [n EXCEPT !.properties.className = Append(nodeClass, "line--highlighted")]
        ELSE [n EXCEPT !.properties =
                [k \in DOMAIN n.properties \cup {"className"} |->
                    IF k = "className" THEN <<"line--highlighted">> ELSE n.properties[k]]]

(***************************************************************************)
(* SpecVisit: one line node of any shape, the callbacks called in any      *)
(* order.                                                                  *)
(***************************************************************************)
SeqsUpTo(S, n) == UNION {[1..k -> S] : k \in 0..n}

TokenTexts == {"", "x"}

ClassNames == {"line", "line--highlighted", "c"}

\* the properties of a line node before the first call: no className at all,
\* or a className of any length up to the bound (the empty list included)
PropsBefore == {NoProps} \cup {[className |-> L] : L \in SeqsUpTo(ClassNames, MaxClasses)}

LineNodes ==
    {[children |-> cs, properties |-> p] :
        cs \in SeqsUpTo({Token(v) : v \in TokenTexts}, MaxChildren), p \in PropsBefore}

Docs == 1..NumDocs

IdleTree == [applied |-> <<>>, lines |-> <<>>]

PipelineIdle ==
    /\ source = [d \in Docs |-> <<>>]
    /\ lineProps = NoProps
    /\ tree = [d \in Docs |-> IdleTree]
    /\ step = [d \in Docs |-> 0]
    /\ active = [d \in Docs |-> 0]
    /\ cursor = [d \in Docs |-> 0]
    /\ pending = [d \in Docs |-> "onVisitLine"]
    /\ logged = <<>>

VisitIdle ==
    /\ node = [children |-> <<>>, properties |-> NoProps]
    /\ prev = node
    /\ calls = <<>>

HeadingsIdle ==
    /\ headings = <<>>
    /\ hstep = 0

InPlaceIdle ==
    /\ arrays = <<>>
    /\ classRef = <<>>
    /\ kids = <<>>
    /\ marked = <<>>
    /\ visit = <<>>

EnvIdle ==
    /\ env = <<>>
    /\ baseUrl = <<>>

EsbuildIdle ==
    /\ esbuild = <<>>

InitVisit ==
    /\ node \in LineNodes
    /\ prev = node
    /\ calls = <<>>
    /\ PipelineIdle
    /\ HeadingsIdle
    /\ InPlaceIdle
    /\ EnvIdle
    /\ EsbuildIdle

CallVisitLine ==
    /\ Len(calls) < MaxCalls
    /\ prev' = node
    /\ node' = onVisitLine(node)
    /\ calls' = Append(calls, "onVisitLine")
    /\ UNCHANGED notVisitVars

CallVisitHighlightedLine ==
    /\ Len(calls) < MaxCalls
    /\ prev' = node
    /\ node' = onVisitHighlightedLine(node)
    /\ calls' = Append(calls, "onVisitHighlightedLine")
    /\ UNCHANGED notVisitVars

NextVisit == CallVisitLine \/ CallVisitHighlightedLine

SpecVisit == InitVisit /\ [][NextVisit]_vars

(***************************************************************************)
(* Spec: a build.  Every document goes through the chain the mdx options   *)
(* list; the last plugin, the code highlighter, visits the line nodes of   *)
(* the document's code and calls the callbacks on them.                    *)
(***************************************************************************)
remarkPlugins == <<"remarkGfm", "remarkMath">>

\* the rehype list with the self-link wrapping listed before the id assignment
rehypePlugins_LinksBeforeIds ==
    <<"rehypeKatex", "rehypeAutolinkHeadings", "rehypeSlug", "rehypePrettyCode">>

rehypePlugins ==
    <<"rehypeKatex", "rehypeSlug", "rehypeAutolinkHeadings", "rehypePrettyCode">>

\* the remark plugins transform the markdown tree, the rehype plugins the html
\* tree made of it: the whole remark list runs before the rehype list
Chain == remarkPlugins \o rehypePlugins

\* a line of fenced code: its tokens (none for an empty line) and whether the
\* fence's meta marks it for emphasis
SourceLines == [tokens : {<<>>, <<"x">>}, highlighted : BOOLEAN]

\* what the highlighter gives a fresh line node as properties: no className
\* (lines told by a data attribute), or the class it names lines by
LinePropsChoices == {NoProps, [className |-> <<"line">>]}

\* the line node the highlighter makes of a source line
LineNode(src) ==
    [children |-> [i \in 1..Len(src.tokens) |-> Token(src.tokens[i])],
     properties |-> lineProps]

\* the lines of `all` that `owner` gives document d (owner is non-decreasing)
Owned(all, owner, d) ==
    LET idx == {i \in 1..Len(all) : owner[i] = d}
        lo == IF idx = {} THEN 1 ELSE CHOOSE i \in idx : \A k \in idx : i <= k
    IN  [j \in 1..Cardinality(idx) |-> all[lo + j - 1]]

Init ==
    /\ \E all \in SeqsUpTo(SourceLines, MaxLines) :
         \E owner \in [1..Len(all) -> Docs] :
            /\ \A i, j \in 1..Len(all) : i <= j => owner[i] <= owner[j]
            /\ source = [d \in Docs |-> Owned(all, owner, d)]
    /\ lineProps \in LinePropsChoices
    /\ tree = [d \in Docs |-> IdleTree]
    /\ step = [d \in Docs |-> 0]
    /\ active = [d \in Docs |-> 0]
    /\ cursor = [d \in Docs |-> 0]
    /\ pending = [d \in Docs |-> "onVisitLine"]
    /\ logged = <<>>
    /\ VisitIdle
    /\ HeadingsIdle
    /\ InPlaceIdle
    /\ EnvIdle
    /\ EsbuildIdle

\* the next plugin of document d's chain, one that takes no callback of this
\* configuration, transforms the tree of d and hands it on
TransformStep(d) ==
    /\ active[d] = 0
    /\ step[d] < Len(Chain)
    /\ Chain[step[d] + 1] # "rehypePrettyCode"
    /\ tree' = [tree EXCEPT ![d].applied = Append(@, Chain[step[d] + 1])]
    /\ step' = [step EXCEPT ![d] = step[d] + 1]
    /\ UNCHANGED <<source, lineProps, logged, active, cursor, pending, notPipelineVars>>

\* the highlighter is the next plugin of document d's chain: it starts and makes
\* the line nodes of the document's code
StartHighlighting(d) ==
    /\ active[d] = 0
    /\ step[d] < Len(Chain)
    /\ Chain[step[d] + 1] = "rehypePrettyCode"
    /\ active' = [active EXCEPT ![d] = step[d] + 1]
    /\ tree' = [tree EXCEPT ![d].lines =
                    [i \in 1..Len(source[d]) |-> LineNode(source[d][i])]]
    /\ cursor' = [cursor EXCEPT ![d] = 0]
    /\ pending' = [pending EXCEPT ![d] = "onVisitLine"]
    /\ UNCHANGED <<source, lineProps, logged, step, notPipelineVars>>

\* VisitLine with a callback that keeps state between calls: it marks the
\* lines it visits once a line of another document has been visited
VisitLine_KeepsState(d) ==
    /\ active[d] # 0
    /\ Chain[active[d]] = "rehypePrettyCode"
    /\ cursor[d] < Len(tree[d].lines)
    /\ pending[d] = "onVisitLine"
    /\ LET i == cursor[d] + 1
           seen == \E e \in Docs \ {d} : cursor[e] > 0
       IN  /\ tree' = [tree EXCEPT ![d].lines[i] =
                           IF seen THEN onVisitHighlightedLine(onVisitLine(@))
                           ELSE onVisitLine(@)]
           /\ IF source[d][i].highlighted
              THEN /\ pending' = [pending EXCEPT ![d] = "onVisitHighlightedLine"]
                   /\ UNCHANGED cursor
              ELSE /\ cursor' = [cursor EXCEPT ![d] = i]
                   /\ UNCHANGED pending
    /\ UNCHANGED <<source, lineProps, logged, step, active, notPipelineVars>>

\* the highlighter calls onVisitLine on the next line of document d
VisitLine(d) ==
    /\ active[d] # 0
    /\ Chain[active[d]] = "rehypePrettyCode"
    /\ cursor[d] < Len(tree[d].lines)
    /\ pending[d] = "onVisitLine"
    /\ LET i == cursor[d] + 1
       IN  /\ tree' = [tree EXCEPT ![d].lines[i] = onVisitLine(@)]
           /\ IF source[d][i].highlighted
              THEN /\ pending' = [pending EXCEPT ![d] = "onVisitHighlightedLine"]
                   /\ UNCHANGED cursor
              ELSE /\ cursor' = [cursor EXCEPT ![d] = i]
                   /\ UNCHANGED pending
    /\ UNCHANGED <<source, lineProps, logged, step, active, notPipelineVars>>

\* the highlighter calls onVisitHighlightedLine on a line marked for emphasis,
\* after onVisitLine on the same line
VisitHighlightedLine(d) ==
    /\ active[d] # 0
    /\ Chain[active[d]] = "rehypePrettyCode"
    /\ cursor[d] < Len(tree[d].lines)
    /\ pending[d] = "onVisitHighlightedLine"
    /\ LET i == cursor[d] + 1
       IN  /\ tree' = [tree EXCEPT ![d].lines[i] = onVisitHighlightedLine(@)]
           /\ cursor' = [cursor EXCEPT ![d] = i]
           /\ pending' = [pending EXCEPT ![d] = "onVisitLine"]
    /\ UNCHANGED <<source, lineProps, logged, step, active, notPipelineVars>>

\* the highlighter has visited every line of document d: it finishes and hands
\* on the tree
FinishHighlighting(d) ==
    /\ active[d] # 0
    /\ Chain[active[d]] = "rehypePrettyCode"
    /\ cursor[d] = Len(tree[d].lines)
    /\ tree' = [tree EXCEPT ![d].applied = Append(@, Chain[active[d]])]
    /\ step' = [step EXCEPT ![d] = active[d]]
    /\ active' = [active EXCEPT ![d] = 0]
    /\ UNCHANGED <<source, lineProps, logged, cursor, pending, notPipelineVars>>

\* the documents of the build, as the completion hook gets them from data()
allDocuments == [d \in 1..NumDocs |-> tree[d]]

\* onSuccess reversing the collection in place before it logs its length
onSuccess_Reverses ==
    /\ \A d \in Docs : step[d] = Len(Chain)
    /\ logged = <<>>
    /\ tree' = [d \in Docs |-> allDocuments[NumDocs + 1 - d]]
    /\ logged' = Append(logged, Len(allDocuments))
    /\ UNCHANGED <<source, lineProps, step, active, cursor, pending, notPipelineVars>>

\* the completion hook, called after all documents are loaded and transformed:
\* it awaits data() and logs the length of allDocuments
onSuccess ==
    /\ \A d \in Docs : step[d] = Len(Chain)
    /\ logged = <<>>
    /\ logged' = Append(logged, Len(allDocuments))
    /\ UNCHANGED <<source, lineProps, tree, step, active, cursor, pending, notPipelineVars>>

Next ==
    \/ \E d \in Docs :
          \/ TransformStep(d)
          \/ StartHighlighting(d)
          \/ VisitLine(d)
          \/ VisitHighlightedLine(d)
          \/ FinishHighlighting(d)
    \/ onSuccess

Spec == Init /\ [][Next]_vars

(***************************************************************************)
(* SpecHeadings: the chain on the headings of one document.  rehypeSlug    *)
(* gives every heading without an id the slug of its text, made unique in  *)
(* the document by a counter; rehypeAutolinkHeadings wraps the content of  *)
(* every heading that has an id in a link to that id.                      *)
(***************************************************************************)
HEADING_LINK_ANCHOR == "anchor-heading-link"

\* the options given to rehypeAutolinkHeadings
AutolinkOptions == [behavior |-> "wrap", className |-> <<HEADING_LINK_ANCHOR>>]

HeadingTexts == {"Sending transactions", "sending-transactions", "Sending transactions 1"}

\* a heading as the parser leaves it: no id, no link
SourceHeadings ==
    {[depth |-> k, text |-> t, id |-> "", links |-> <<>>] :
        k \in {2, 3}, t \in HeadingTexts}

\* the slug of a heading text: lower case, spaces to hyphens
Slugify(t) ==
    CASE t = "Sending transactions" -> "sending-transactions"
      [] t = "sending-transactions" -> "sending-transactions"
      [] t = "Sending transactions 1" -> "sending-transactions-1"

Num(n) == <<"1", "2", "3", "4", "5", "6", "7", "8", "9">>[n]

\* the slugger without its counter: every text gets its plain slug
SluggerSlug_NoCounter(t, occ) ==
    [slug |-> Slugify(t),
     occ |-> [k \in DOMAIN occ \cup {Slugify(t)} |-> 0]]

RECURSIVE SluggerLoop(_, _, _)
SluggerLoop(original, result, occ) ==
    IF result \in DOMAIN occ
    THEN LET counted == [occ EXCEPT ![original] = @ + 1]
         IN  SluggerLoop(original, original \o "-" \o Num(counted[original]), counted)
    ELSE [slug |-> result,
          occ |-> [k \in DOMAIN occ \cup {result} |-> IF k = result THEN 0 ELSE occ[k]]]

\* the slugger: the slug of t, with -1, -2, ... appended until it is one the
\* document has not seen; occ counts, per slug seen, the suffixes given out
SluggerSlug(t, occ) == SluggerLoop(Slugify(t), Slugify(t), occ)

RECURSIVE SlugHeadings(_, _)
SlugHeadings(hs, occ) ==
    IF hs = <<>> THEN <<>>
    ELSE IF Head(hs).id # ""
         THEN <<Head(hs)>> \o SlugHeadings(Tail(hs), occ)
         ELSE LET r == SluggerSlug(Head(hs).text, occ)
              IN  <<[Head(hs) EXCEPT !.id = r.slug]>> \o SlugHeadings(Tail(hs), r.occ)

\* rehypeSlug on the headings of a document, with a slugger reset for it
rehypeSlug(hs) == SlugHeadings(hs, [k \in {} |-> 0])

\* the link rehypeAutolinkHeadings makes for a heading with the given id
HeadingLink(id) ==
    [href |-> "#" \o id,
     className |-> AutolinkOptions.className,
     wraps |-> (AutolinkOptions.behavior = "wrap")]

\* rehypeAutolinkHeadings on the headings of a document: the outermost link first
rehypeAutolinkHeadings(hs) ==
    [i \in 1..Len(hs) |->
        IF hs[i].id # ""
        THEN [hs[i] EXCEPT !.links = <<HeadingLink(hs[i].id)>> \o @]
        ELSE hs[i]]

InitHeadings ==
    /\ headings \in SeqsUpTo(SourceHeadings, MaxHeadings)
    /\ hstep = 0
    /\ PipelineIdle
    /\ VisitIdle
    /\ InPlaceIdle
    /\ EnvIdle
    /\ EsbuildIdle

HeadingIds ==
    /\ hstep < Len(Chain)
    /\ Chain[hstep + 1] = "rehypeSlug"
    /\ headings' = rehypeSlug(headings)
    /\ hstep' = hstep + 1
    /\ UNCHANGED notHeadingVars

HeadingLinks ==
    /\ hstep < Len(Chain)
    /\ Chain[hstep + 1] = "rehypeAutolinkHeadings"
    /\ headings' = rehypeAutolinkHeadings(headings)
    /\ hstep' = hstep + 1
    /\ UNCHANGED notHeadingVars

\* a plugin of the chain that leaves the headings as they are
HeadingsKept ==
    /\ hstep < Len(Chain)
    /\ Chain[hstep + 1] \notin {"rehypeSlug", "rehypeAutolinkHeadings"}
    /\ hstep' = hstep + 1
    /\ UNCHANGED <<headings, notHeadingVars>>

NextHeadings == HeadingIds \/ HeadingLinks \/ HeadingsKept

SpecHeadings == InitHeadings /\ [][NextHeadings]_vars

(***************************************************************************)
(* SpecInPlace: the callbacks on the line nodes of a build, with arrays as   *)
(* the objects they are.  A class list is an array on the heap and a node    *)
(* holds a reference to it: an assignment of an array literal makes a new    *)
(* array, a push changes the array in place, for every node that holds it.   *)
(* The highlighter may hand out line nodes that hold one and the same array. *)
(* The line nodes of all documents of the build are on the one heap.         *)
(***************************************************************************)
LineIds == 1..MaxNodes

\* the class list of line l as a reader of the tree sees it
ClassOf(l) == IF classRef[l] = 0 THEN <<"absent">> ELSE arrays[classRef[l]]

\* children and class list of line l
NodeView(l) == [children |-> kids[l], className |-> ClassOf(l)]

InitInPlace ==
    /\ arrays \in {<<(<<>>)>>, <<(<<"c">>)>>}
    /\ classRef \in [LineIds -> {0, 1}]
    /\ kids \in [LineIds -> {<<>>, <<Token("x")>>}]
    /\ marked \in [LineIds -> BOOLEAN]
    /\ visit = [l \in LineIds |-> "onVisitLine"]
    /\ PipelineIdle
    /\ VisitIdle
    /\ HeadingsIdle
    /\ EnvIdle
    /\ EsbuildIdle

\* onVisitLine assigning one array, made once, to every line it visits
onVisitLineInPlace_OneArray(l) ==
    /\ visit[l] = "onVisitLine"
    /\ IF Len(kids[l]) = 0
       THEN kids' = [kids EXCEPT ![l] = <<Text(" ")>>]
       ELSE UNCHANGED kids
    /\ IF \E m \in LineIds : visit[m] # "onVisitLine"
       THEN /\ classRef' = [classRef EXCEPT ![l] =
                   classRef[CHOOSE m \in LineIds : visit[m] # "onVisitLine"]]
            /\ UNCHANGED arrays
       ELSE /\ arrays' = Append(arrays, <<"line">>)
            /\ classRef' = [classRef EXCEPT ![l] = Len(arrays) + 1]
    /\ visit' = [visit EXCEPT ![l] =
                   IF marked[l] THEN "onVisitHighlightedLine" ELSE "done"]
    /\ UNCHANGED <<marked, notInPlaceVars>>

\* onVisitLine on line l: a new children array if there are no children, and
\* a new array ["line"] as the class list
onVisitLineInPlace(l) ==
    /\ visit[l] = "onVisitLine"
    /\ IF Len(kids[l]) = 0
       THEN kids' = [kids EXCEPT ![l] = <<Text(" ")>>]
       ELSE UNCHANGED kids
    /\ arrays' = Append(arrays, <<"line">>)
    /\ classRef' = [classRef EXCEPT ![l] = Len(arrays) + 1]
    /\ visit' = [visit EXCEPT ![l] =
                   IF marked[l] THEN "onVisitHighlightedLine" ELSE "done"]
    /\ UNCHANGED <<marked, notInPlaceVars>>

\* onVisitHighlightedLine on line l: a push onto the array the node holds if
\* it holds a non-empty one, a new array ["line--highlighted"] otherwise
onVisitHighlightedLineInPlace(l) ==
    /\ visit[l] = "onVisitHighlightedLine"
    /\ IF classRef[l] # 0 /\ Len(arrays[classRef[l]]) > 0
       THEN /\ arrays' = [arrays EXCEPT ![classRef[l]] = Append(@, "line--highlighted")]
            /\ UNCHANGED classRef
       ELSE /\ arrays' = Append(arrays, <<"line--highlighted">>)
            /\ classRef' = [classRef EXCEPT ![l] = Len(arrays) + 1]
    /\ visit' = [visit EXCEPT ![l] = "done"]
    /\ UNCHANGED <<kids, marked, notInPlaceVars>>

NextInPlace ==
    \E l \in LineIds :
        \/ onVisitLineInPlace(l)
        \/ onVisitHighlightedLineInPlace(l)

SpecInPlace == InitInPlace /\ [][NextInPlace]_vars

(***************************************************************************)
(* SpecEnv: the evaluation of lib/metadata.ts under an environment.  A      *)
(* value is undefined, a string or a number; a string is kept as the parts  *)
(* it was put together from, so that a part that is the text of undefined   *)
(* can be told.                                                             *)
(***************************************************************************)
Undefined == [t |-> "undefined", parts |-> <<"undefined">>]

Str(s) == [t |-> "string", parts |-> <<s>>]

Number(s) == [t |-> "number", parts |-> <<s>>]

Unevaluated == [t |-> "unevaluated", parts |-> <<>>]

\* the truth value of a value under ||: undefined and the empty string are false
Truthy(x) == x.t # "undefined" /\ x.parts # <<"">>

\* a || b
Or(a, b) == IF Truthy(a) THEN a ELSE b

\* the template literal `prefix${x}`: the text of x after the prefix
Template(prefix, x) == [t |-> "string", parts |-> <<prefix>> \o x.parts]

EnvChoices ==
    [VERCEL_URL : {Undefined, Str(""), Str("garden.vercel.app"), Str("preview.vercel.app")},
     NEXT_PUBLIC_BASE_URL : {Undefined, Str(""), Str("https://martondobos.com"), Str("http://example.org")},
     PORT : {Undefined, Str(""), Str("8080"), Str("0")}]

BASE_URL(e) ==
    Or(Template("https://", e.VERCEL_URL),
       Or(e.NEXT_PUBLIC_BASE_URL,
          Template("http://localhost:", Or(e.PORT, Number("3000")))))

InitEnv ==
    /\ env \in EnvChoices
    /\ baseUrl = Unevaluated
    /\ PipelineIdle
    /\ VisitIdle
    /\ HeadingsIdle
    /\ InPlaceIdle
    /\ EsbuildIdle

\* the module is evaluated: the constant gets its value
LoadMetadata ==
    /\ baseUrl = Unevaluated
    /\ baseUrl' = BASE_URL(env)
    /\ UNCHANGED <<env, notEnvVars>>

NextEnv == LoadMetadata

SpecEnv == InitEnv /\ [][NextEnv]_vars

(***************************************************************************)
(* SpecEsbuild: the host calls esbuildOptions with its options object.      *)
(* Objects are on a heap and are given and returned by reference, so that   *)
(* "the object it was given" is a fact about the reference returned.        *)
(***************************************************************************)
OptionKeys == {"target", "minify", "platform", "format"}

OptionValues(k) ==
    CASE k = "target" -> {"es2020", "esnext"}
      [] k = "minify" -> {"true", "false"}
      [] k = "platform" -> {"node", "browser"}
      [] k = "format" -> {"esm", "cjs"}

\* the options objects the host may hand over: any of the keys, set or not
OptionObjects ==
    UNION { {o \in [K -> UNION {OptionValues(k) : k \in OptionKeys}] :
                \A k \in K : o[k] \in OptionValues(k)} : K \in SUBSET OptionKeys }

\* esbuildOptions returning a copy with the target set ({...options, target})
esbuildOptions_Copy(heap, options) ==
    [heap |-> Append(heap,
                [k \in DOMAIN heap[options] \cup {"target"} |->
                    IF k = "target" THEN "esnext" ELSE heap[options][k]]),
     returned |-> Len(heap) + 1]

\* options.target = "esnext"; return options
esbuildOptions(heap, options) ==
    [heap |-> [heap EXCEPT ![options] =
                [k \in DOMAIN heap[options] \cup {"target"} |->
                    IF k = "target" THEN "esnext" ELSE heap[options][k]]],
     returned |-> options]

InitEsbuild ==
    /\ \E o \in OptionObjects :
          esbuild = [heap |-> <<o>>, given |-> 1, returned |-> 0, before |-> o]
    /\ PipelineIdle
    /\ VisitIdle
    /\ HeadingsIdle
    /\ InPlaceIdle
    /\ EnvIdle

\* the host calls the function with the object it holds
CallEsbuildOptions ==
    /\ esbuild.returned = 0
    /\ LET r == esbuildOptions(esbuild.heap, esbuild.given)
       IN  esbuild' = [esbuild EXCEPT !.heap = r.heap, !.returned = r.returned]
    /\ UNCHANGED notEsbuildVars

NextEsbuild == CallEsbuildOptions

SpecEsbuild == InitEsbuild /\ [][NextEsbuild]_vars

(***************************************************************************)
(* Properties.                                                             *)
(***************************************************************************)
Visited == "onVisitLine" \in Range(calls)

LastCall == IF calls = <<>> THEN "none" ELSE Last(calls)

\* the highlighting step of document d is over
Highlighted(d) == "rehypePrettyCode" \in Range(tree[d].applied)

\* the order the transform steps are to run in
TransformOrder ==
    <<"remarkGfm", "remarkMath", "rehypeKatex", "rehypeSlug",
      "rehypeAutolinkHeadings", "rehypePrettyCode">>

\* C1 (Spec): every document's steps run in the one order GFM, math, math
\* rendering, heading ids, heading self-links, code highlighting.  The tree of a
\* document carries the results of exactly the first step[d] steps of that order,
\* each put there by the step after the one before; the highlighter, the one step
\* that takes time on a document, is the sixth: it runs only on a tree that
\* carries the five earlier steps' results, and no line node exists before it.
C1_TransformOrderFixed ==
    \A d \in Docs :
        /\ step[d] <= Len(TransformOrder)
        /\ tree[d].applied = SubSeq(TransformOrder, 1, step[d])
        /\ active[d] # 0 =>
              /\ active[d] = step[d] + 1
              /\ Chain[active[d]] = TransformOrder[step[d] + 1]
              /\ active[d] = Len(TransformOrder)
        /\ ~Highlighted(d) /\ active[d] = 0 => tree[d].lines = <<>>

\* C1 witness: one document has gone through the whole chain while the
\* highlighter is in the middle of the lines of another, which has finished the
\* five earlier steps.
C1_Witness ==
    \E d, e \in Docs :
        /\ step[d] = 6
        /\ tree[d].applied = TransformOrder
        /\ step[e] = 5
        /\ active[e] = 6
        /\ Len(tree[e].lines) = 2
        /\ cursor[e] = 1

C3_VisitedLineHasLineClass ==
    Visited => HasClassName(node) /\ "line" \in Range(ClassList(node))

\* C3 witness: onVisitLine has visited a node whose class list was non-empty
\* and without "line".
C3_Witness ==
    /\ calls = <<"onVisitLine">>
    /\ ClassList(prev) = <<"c">>
    /\ ClassList(node) = <<"line">>

\* C4 (SpecVisit): onVisitHighlightedLine on a node with a non-empty class list L
\* leaves the list L followed by "line--highlighted".
C4_HighlightAppends ==
    LastCall = "onVisitHighlightedLine" /\ Len(ClassList(prev)) > 0
        => /\ HasClassName(node)
           /\ ClassList(node) = ClassList(prev) \o <<"line--highlighted">>

\* C4 witness: the call was made on a node carrying two classes, which are
\* still there, in place, in front of the new one.
C4_Witness ==
    /\ LastCall = "onVisitHighlightedLine"
    /\ ClassList(prev) = <<"c", "line">>
    /\ ClassList(node) = <<"c", "line", "line--highlighted">>

\* C5 (Spec): of two lines with the same tokens whose highlighting is over, one
\* marked for emphasis and one not, the marked one carries every class of the
\* other and the emphasis class besides.
C5_EmphasisSuperset ==
    \A d, e \in Docs :
        Highlighted(d) /\ Highlighted(e) =>
            \A i \in 1..Len(source[d]) : \A j \in 1..Len(source[e]) :
                /\ source[d][i].highlighted
                /\ ~source[e][j].highlighted
                /\ source[d][i].tokens = source[e][j].tokens
                => /\ Range(ClassList(tree[e].lines[j])) \subseteq
                          Range(ClassList(tree[d].lines[i]))
                   /\ "line--highlighted" \in Range(ClassList(tree[d].lines[i]))
                   /\ "line--highlighted" \notin Range(ClassList(tree[e].lines[j]))

\* C5 witness: a marked and an unmarked line with the same tokens, in two
\* documents, both highlighted.
C5_Witness ==
    \E d, e \in Docs :
        /\ d # e
        /\ Highlighted(d) /\ Highlighted(e)
        /\ Len(source[d]) = 1 /\ Len(source[e]) = 1
        /\ source[d][1].highlighted /\ ~source[e][1].highlighted
        /\ source[d][1].tokens = source[e][1].tokens
        /\ ClassList(tree[e].lines[1]) = <<"line">>
        /\ ClassList(tree[d].lines[1]) = <<"line", "line--highlighted">>

\* C6 (Spec): the highlighting step keeps the line nodes of a code block one per
\* source line; when it is over every empty source line is the single-space
\* placeholder and every highlighted line carries "line" and "line--highlighted".
C6_BlockOfNLines ==
    \A d \in Docs :
        /\ active[d] # 0 /\ Chain[active[d]] = "rehypePrettyCode"
              => Len(tree[d].lines) = Len(source[d])
        /\ Highlighted(d) =>
              /\ Len(tree[d].lines) = Len(source[d])
              /\ \A i \in 1..Len(source[d]) :
                    /\ source[d][i].tokens = <<>> =>
                          /\ tree[d].lines[i].children = <<Text(" ")>>
                          /\ Rendered(tree[d].lines[i]) = " "
                    /\ source[d][i].highlighted =>
                          {"line", "line--highlighted"} \subseteq
                              Range(ClassList(tree[d].lines[i]))

\* C6 witness: a highlighted block of two lines, an empty one and a
\* highlighted one with tokens.
C6_Witness ==
    \E d \in Docs :
        /\ Highlighted(d)
        /\ Len(source[d]) = 2
        /\ source[d][1].tokens = <<>> /\ ~source[d][1].highlighted
        /\ source[d][2].tokens # <<>> /\ source[d][2].highlighted
        /\ Len(tree[d].lines) = 2
        /\ tree[d].lines[1].children = <<Text(" ")>>
        /\ ClassList(tree[d].lines[2]) = <<"line", "line--highlighted">>

\* C19 (SpecVisit): right after onVisitLine the class list of the node is exactly
\* <<"line">>; whatever the node carried before the call is gone.
C19_VisitLineResetsClasses ==
    LastCall = "onVisitLine"
        => /\ HasClassName(node)
           /\ ClassList(node) = <<"line">>

\* C19 witness: the node carried two other classes before the call, one of them
\* put there by an earlier onVisitHighlightedLine.
C19_Witness ==
    /\ calls = <<"onVisitHighlightedLine", "onVisitLine">>
    /\ ClassList(prev) = <<"c", "line--highlighted">>
    /\ ClassList(node) = <<"line">>

\* C20 (SpecVisit): of the two orders of one onVisitLine and one
\* onVisitHighlightedLine on a node, onVisitLine first ends with the highlight
\* class after "line"; onVisitLine last ends with <<"line">> alone, the highlight
\* class the node had before that call lost.
C20_CallbacksDoNotCommute ==
    /\ calls = <<"onVisitLine", "onVisitHighlightedLine">>
          => ClassList(node) = <<"line", "line--highlighted">>
    /\ calls = <<"onVisitHighlightedLine", "onVisitLine">>
          => /\ "line--highlighted" \in Range(ClassList(prev))
             /\ "line--highlighted" \notin Range(ClassList(node))
             /\ ClassList(node) = <<"line">>

\* C20 witness: a node without className, onVisitHighlightedLine first and
\* onVisitLine second: the highlight class it had in between is gone.
C20_Witness ==
    /\ calls = <<"onVisitHighlightedLine", "onVisitLine">>
    /\ ClassList(prev) = <<"line--highlighted">>
    /\ ClassList(node) = <<"line">>

\* C12 (SpecHeadings): when the chain is over every heading has an id and one
\* link around its content, made with behavior "wrap" and the class
\* "anchor-heading-link" and pointing at that id; and at no time is a heading
\* wrapped that has no id.
C12_HeadingIdAndSelfLink ==
    /\ \A i \in 1..Len(headings) :
          headings[i].links # <<>> => headings[i].id # ""
    /\ hstep = Len(Chain) =>
          \A i \in 1..Len(headings) :
             /\ headings[i].id # ""
             /\ headings[i].links =
                   <<[href |-> "#" \o headings[i].id,
                      className |-> <<"anchor-heading-link">>,
                      wraps |-> TRUE]>>

\* C12 witness: the chain is over on a document of two headings, both with
\* their id and their one link.
C12_Witness ==
    /\ hstep = Len(Chain)
    /\ Len(headings) = 2
    /\ headings[1].id = "sending-transactions"
    /\ headings[1].links[1].href = "#sending-transactions"
    /\ Len(headings[2].links) = 1

\* C13 (SpecHeadings): when the chain is over no two headings of the document
\* have the same id, whatever their texts and levels.
C13_HeadingIdsUnique ==
    hstep = Len(Chain) =>
        \A i, j \in 1..Len(headings) :
            i # j => headings[i].id # headings[j].id

\* C13 witness: a level 3 and a level 2 heading with the same text, and a third
\* whose own slug is the one the second was given.
C13_Witness ==
    /\ hstep = Len(Chain)
    /\ Len(headings) = 3
    /\ headings[1].depth = 3 /\ headings[1].text = "Sending transactions"
    /\ headings[2].depth = 2 /\ headings[2].text = "Sending transactions"
    /\ headings[3].text = "Sending transactions 1"
    /\ headings[1].id = "sending-transactions"
    /\ headings[2].id = "sending-transactions-1"
    /\ headings[3].id = "sending-transactions-1-1"

\* the tree the chain makes of a document's source when run on it alone, one
\* step after the other
AloneResult(src) ==
    [applied |-> Chain,
     lines |-> [i \in 1..Len(src) |->
                   IF src[i].highlighted
                   THEN onVisitHighlightedLine(onVisitLine(LineNode(src[i])))
                   ELSE onVisitLine(LineNode(src[i]))]]

Transformed(d) == step[d] = Len(Chain)

C15_DocumentsDoNotInterfere ==
    \A d \in Docs :
        /\ tree[d].applied = SubSeq(Chain, 1, step[d])
        /\ Transformed(d) => tree[d] = AloneResult(source[d])

\* C15 witness: a document with a highlighted line is transformed, with the
\* result it gets alone, while the highlighter is between the two callbacks on
\* a line of the other document.
C15_Witness ==
    \E d, e \in Docs :
        /\ d # e
        /\ Transformed(d)
        /\ Len(source[d]) = 1 /\ source[d][1].highlighted
        /\ tree[d] = AloneResult(source[d])
        /\ active[e] # 0
        /\ pending[e] = "onVisitHighlightedLine"

\* C17 (Spec): the step in which the hook logs changes neither a document nor
\* the sources, and what it logs is the number of documents of the build; and no
\* step changes the tree of a document that is transformed.
C17_HookOnlyReads ==
    [][/\ logged' # logged =>
             /\ tree' = tree
             /\ source' = source
             /\ logged' = Append(logged, Cardinality({d \in Docs : Transformed(d)}))
             /\ Cardinality({d \in Docs : Transformed(d)}) = NumDocs
       /\ \A d \in Docs : Transformed(d) => tree'[d] = tree[d]]_vars

\* C17 witness: the hook has logged the number of documents of a build whose
\* documents have code lines.
C17_Witness ==
    /\ Len(logged) = 1
    /\ logged[1] = NumDocs
    /\ \A d \in Docs : Transformed(d) /\ Len(tree[d].lines) = 1
    /\ tree[1] # tree[2]

\* C16 (SpecInPlace): a call of onVisitLine or onVisitHighlightedLine on a line
\* node leaves the children and the class list of every other line node of the
\* build as they were, also when the call is a push onto an array.
C16_CallbacksChangeOnlyVisitedNode ==
    [][\A l \in LineIds :
          visit'[l] # visit[l] =>
              \A m \in LineIds \ {l} : NodeView(m)' = NodeView(m)]_vars

\* C16 witness: onVisitHighlightedLine has pushed onto the array onVisitLine
\* gave a line, and another line that onVisitLine visited, and that held the
\* same array as the first before the visits, has the class list ["line"].
C16_Witness ==
    \E l, m \in LineIds :
        /\ l # m
        /\ marked[l] /\ ~marked[m]
        /\ visit[l] = "done" /\ visit[m] = "done"
        /\ ClassOf(l) = <<"line", "line--highlighted">>
        /\ ClassOf(m) = <<"line">>
        /\ classRef[l] # classRef[m]

\* the last two callbacks called were both c
CalledTwice(c) ==
    /\ Len(calls) >= 2
    /\ calls[Len(calls)] = c
    /\ calls[Len(calls) - 1] = c

\* C21 (SpecVisit): a line node visited by onVisitLine and then by
\* onVisitHighlightedLine has the class list ["line", "line--highlighted"]; a
\* further call of onVisitHighlightedLine adds a second "line--highlighted",
\* and in general the second of two calls of onVisitHighlightedLine in a row
\* adds one more entry to the list the first one left.
C21_LineThenHighlighted ==
    /\ calls = <<"onVisitLine", "onVisitHighlightedLine">>
          => ClassList(node) = <<"line", "line--highlighted">>
    /\ calls = <<"onVisitLine", "onVisitHighlightedLine", "onVisitHighlightedLine">>
          => ClassList(node) = <<"line", "line--highlighted", "line--highlighted">>
    /\ CalledTwice("onVisitHighlightedLine")
          => /\ ClassList(node) = Append(ClassList(prev), "line--highlighted")
             /\ node # prev

\* C21 witness: onVisitLine, then onVisitHighlightedLine twice: after the
\* first two calls the list was ["line", "line--highlighted"], after the third
\* it has the class of the highlighted line twice.
C21_Witness ==
    /\ calls = <<"onVisitLine", "onVisitHighlightedLine", "onVisitHighlightedLine">>
    /\ ClassList(prev) = <<"line", "line--highlighted">>
    /\ ClassList(node) = <<"line", "line--highlighted", "line--highlighted">>

\* C22 (SpecVisit): the second of two calls of onVisitLine in a row changes
\* nothing: the node has the children and the class list ["line"] the first
\* call left, and on every node reached a further call gives the node itself.
C22_VisitLineIdempotent ==
    /\ CalledTwice("onVisitLine")
          => /\ node.children = prev.children
             /\ ClassList(node) = ClassList(prev)
             /\ ClassList(node) = <<"line">>
    /\ onVisitLine(onVisitLine(node)) = onVisitLine(node)

\* C22 witness: onVisitLine called twice on a node that had no children: the
\* node has the one placeholder and the class list ["line"].
C22_Witness ==
    /\ calls = <<"onVisitLine", "onVisitLine">>
    /\ node.children = <<Text(" ")>>
    /\ ClassList(node) = <<"line">>
    /\ node = prev

\* C23 (SpecVisit): a call of onVisitLine on a node that has a child leaves the
\* children as they were; of the properties only the class list is written.
C23_VisitLineKeepsChildren ==
    (LastCall = "onVisitLine" /\ Len(prev.children) >= 1)
        => /\ node.children = prev.children
           /\ DOMAIN node.properties = DOMAIN prev.properties \cup {"className"}
           /\ \A k \in DOMAIN prev.properties \ {"className"} :
                  node.properties[k] = prev.properties[k]

\* C23 witness: onVisitLine was called on a node with two children and other
\* classes: the children are the same, the class list is not.
C23_Witness ==
    /\ LastCall = "onVisitLine"
    /\ Len(prev.children) = 2
    /\ node.children = prev.children
    /\ ClassList(prev) = <<"c">>
    /\ ClassList(node) = <<"line">>

\* C24 (SpecVisit): a call of onVisitHighlightedLine on a node whose class list
\* is absent or empty leaves the node with the class list
\* ["line--highlighted"]; every call of it leaves the children as they were.
C24_HighlightWithoutClasses ==
    LastCall = "onVisitHighlightedLine"
        => /\ node.children = prev.children
           /\ (~HasClassName(prev) \/ ClassList(prev) = <<>>)
                 => /\ HasClassName(node)
                    /\ ClassList(node) = <<"line--highlighted">>

\* C24 witness: onVisitHighlightedLine was the first call on a node that had
\* children and no className.
C24_Witness ==
    /\ calls = <<"onVisitHighlightedLine">>
    /\ ~HasClassName(prev)
    /\ Len(prev.children) >= 1
    /\ node.children = prev.children
    /\ ClassList(node) = <<"line--highlighted">>

\* an environment variable is set: it is defined and not the empty string
IsSet(x) == x.t = "string" /\ x.parts # <<"">>

\* the value the fallback chain gives
FallbackChain(e) ==
    IF IsSet(e.VERCEL_URL) THEN <<"https://">> \o e.VERCEL_URL.parts
    ELSE IF IsSet(e.NEXT_PUBLIC_BASE_URL) THEN e.NEXT_PUBLIC_BASE_URL.parts
    ELSE IF IsSet(e.PORT) THEN <<"http://localhost:">> \o e.PORT.parts
    ELSE <<"http://localhost:", "3000">>

\* C25 (SpecEnv): once the module is evaluated BASE_URL is the value of the
\* fallback chain (VERCEL_URL with https://, else NEXT_PUBLIC_BASE_URL, else
\* localhost with PORT or 3000), and no part of it is the text of undefined.
C25_BaseUrlFallbackChain ==
    baseUrl # Unevaluated
        => /\ baseUrl.parts = FallbackChain(env)
           /\ "undefined" \notin Range(baseUrl.parts)

\* C27 (SpecEsbuild): what esbuildOptions returns is the object it was given;
\* after the call that object has the target "esnext", every other option it
\* had with the value it had, and no further option.
C27_EsbuildTargetOnly ==
    esbuild.returned # 0 =>
        LET after == esbuild.heap[esbuild.returned]
        IN  /\ esbuild.returned = esbuild.given
            /\ after["target"] = "esnext"
            /\ DOMAIN after = DOMAIN esbuild.before \cup {"target"}
            /\ \A k \in DOMAIN esbuild.before \ {"target"} :
                   after[k] = esbuild.before[k]

\* C27 witness: the function has returned on an object that had another
\* target and other options.
C27_Witness ==
    /\ esbuild.returned # 0
    /\ DOMAIN esbuild.before = OptionKeys
    /\ esbuild.before["target"] = "es2020"
    /\ esbuild.heap[esbuild.given]["target"] = "esnext"
    /\ esbuild.heap[esbuild.given]["minify"] = esbuild.before["minify"]

====
